---- MODULE Spec2Model ----
(***************************************************************************)
(* Model of src/constants.js of antigravity-claude-proxy: the model-name   *)
(* classifier (getModelFamily, isThinkingModel), the configurable          *)
(* constants, the platform-dependent paths, the endpoint fallback list and *)
(* the model fallback map.                                                 *)
(*                                                                         *)
(* A JavaScript string is a sequence of one-character strings; a path is a *)
(* sequence of path segments.  A model name handed to the classifier is a  *)
(* record [isNull, chars]: null/undefined, or a string.                    *)
(***************************************************************************)
EXTENDS Integers, Sequences, FiniteSets, TLC

VARIABLES
    modelName, family, thinking, error, calls,      \* classifier
    config, knobs, loaded,                          \* configurable constants
    osPlatform, osArch, home, dbPath, userAgent,    \* platform resolver
    reqNo, epIdx, contacted, phase, served,         \* endpoint dispatcher
    primary, cur, hops, cap, visited, prev, walk    \* model fallback walk

vars == <<modelName, family, thinking, error, calls,
          config, knobs, loaded,
          osPlatform, osArch, home, dbPath, userAgent,
          reqNo, epIdx, contacted, phase, served,
          primary, cur, hops, cap, visited, prev, walk>>

classifierVars == <<modelName, family, thinking, error, calls>>
configVars     == <<config, knobs, loaded>>
platformVars   == <<osPlatform, osArch, home, dbPath, userAgent>>
endpointVars   == <<reqNo, epIdx, contacted, phase, served>>
fallbackVars   == <<primary, cur, hops, cap, visited, prev, walk>>

----------------------------------------------------------------------------
(* Bounds *)

MaxFrags == 4        \* fragments in a request's model name
MaxHomeDepth == 2    \* segments in the home directory
MaxRequests == 3     \* requests the dispatcher serves
MaxHops == 5         \* hops of the longest fallback walk

----------------------------------------------------------------------------
(* Strings *)

sClaude   == <<"c","l","a","u","d","e">>
sGemini   == <<"g","e","m","i","n","i">>
sThinking == <<"t","h","i","n","k","i","n","g">>
sGeminiDash == <<"g","e","m","i","n","i","-">>

Digits == {"0","1","2","3","4","5","6","7","8","9"}

DigitValue(c) ==
    CASE c = "0" -> 0 [] c = "1" -> 1 [] c = "2" -> 2 [] c = "3" -> 3
      [] c = "4" -> 4 [] c = "5" -> 5 [] c = "6" -> 6 [] c = "7" -> 7
      [] c = "8" -> 8 [] c = "9" -> 9

\* String.prototype.toLowerCase on one character (the letters that occur)
LowerChar(c) ==
    CASE c = "C" -> "c" [] c = "L" -> "l" [] c = "A" -> "a" [] c = "U" -> "u"
      [] c = "D" -> "d" [] c = "E" -> "e" [] c = "G" -> "g" [] c = "M" -> "m"
      [] c = "I" -> "i" [] c = "N" -> "n" [] c = "T" -> "t" [] c = "H" -> "h"
      [] c = "K" -> "k"
      [] OTHER -> c

toLowerCase(s) == [i \in 1..Len(s) |-> LowerChar(s[i])]

\* s.startsWith(sub, i-1): sub occurs in s at (1-based) position i
OccursAt(s, sub, i) ==
    /\ i >= 1
    /\ i + Len(sub) - 1 <= Len(s)
    /\ SubSeq(s, i, i + Len(sub) - 1) = sub

\* String.prototype.includes
includes(s, sub) == \E i \in 1..(Len(s) + 1) : OccursAt(s, sub, i)

\* the model name values: null (or undefined), or a string
Null == [isNull |-> TRUE, chars |-> <<>>]
Str(s) == [isNull |-> FALSE, chars |-> s]

\* mutant: the "|| ''" default is dropped
OrEmpty_NoDefault(v) == v

\* (modelName || ''): null, undefined and '' are falsy
OrEmpty(v) == IF v.isNull \/ v.chars = <<>> THEN Str(<<>>) ELSE v

\* calling .toLowerCase() on null throws a TypeError
Throws(v) == v.isNull

\* const lower = (modelName || '').toLowerCase();
Lower(name) == toLowerCase(OrEmpty(name).chars)

----------------------------------------------------------------------------
(* getModelFamily *)

\* mutant: the "gemini" test is made before the "claude" test
getModelFamily_GeminiFirst(name) ==
    LET lower == Lower(name) IN
    IF includes(lower, sGemini) THEN "gemini"
    ELSE IF includes(lower, sClaude) THEN "claude"
    ELSE "unknown"

getModelFamily(name) ==
    LET lower == Lower(name) IN
    IF includes(lower, sClaude) THEN "claude"
    ELSE IF includes(lower, sGemini) THEN "gemini"
    ELSE "unknown"

----------------------------------------------------------------------------
(* isThinkingModel *)

\* positions where /gemini-(\d+)/ can match: "gemini-" followed by a digit
MatchPositions(s) ==
    {i \in 1..Len(s) : /\ OccursAt(s, sGeminiDash, i)
                       /\ i + 7 <= Len(s)
                       /\ s[i + 7] \in Digits}

SetMin(S) == CHOOSE x \in S : \A y \in S : x <= y

\* (\d+) is greedy: the longest run of digits that starts at position i
RECURSIVE DigitRun(_, _)
DigitRun(s, i) ==
    IF i <= Len(s) /\ s[i] \in Digits
    THEN <<s[i]>> \o DigitRun(s, i + 1)
    ELSE <<>>

\* parseInt(digits, 10) on a non-empty run of decimal digits
RECURSIVE parseInt(_)
parseInt(ds) ==
    IF ds = <<>> THEN 0
    ELSE 10 * parseInt(SubSeq(ds, 1, Len(ds) - 1)) + DigitValue(ds[Len(ds)])

\* lower.match(/gemini-(\d+)/): no g flag, so the leftmost match only.
\* The result is [found, group]: group is versionMatch[1].
versionMatch(s) ==
    IF MatchPositions(s) = {}
    THEN [found |-> FALSE, group |-> <<>>]
    ELSE [found |-> TRUE, group |-> DigitRun(s, SetMin(MatchPositions(s)) + 7)]

isThinkingModel(name) ==
    LET lower == Lower(name) IN
    IF includes(lower, sClaude) /\ includes(lower, sThinking) THEN TRUE
    ELSE IF includes(lower, sGemini)
         THEN IF includes(lower, sThinking) THEN TRUE
              ELSE LET m == versionMatch(lower) IN
                   m.found /\ parseInt(m.group) >= 3
         ELSE FALSE

----------------------------------------------------------------------------
(* Configurable constants *)

\* JavaScript values of the configuration: undefined, a number, or a string
\* (a string is the sequence of its pieces, a path the sequence of its
\* segments; '' is the empty sequence)
Undefined == [t |-> "undefined", n |-> 0, s |-> <<>>]
Num(k)    == [t |-> "number", n |-> k, s |-> <<>>]
Text(q)   == [t |-> "string", n |-> 0, s |-> q]

\* undefined, 0 and '' are falsy
Falsy(v) ==
    \/ v.t = "undefined"
    \/ v.t = "number" /\ v.n = 0
    \/ v.t = "string" /\ v.s = <<>>

\* a || b
Or(a, b) == IF Falsy(a) THEN b ELSE a

\* path.join: the segments of both parts, empty and "." segments dropped
join(a, b) == SelectSeq(a \o b, LAMBDA x : x # "" /\ x # ".")

ConfigFields == {"tokenCacheTtlMs", "requestBodyLimit", "port", "accountConfigPath",
                 "defaultCooldownMs", "maxRetries", "maxAccounts", "maxWaitBeforeErrorMs"}

KnobNames == {"TOKEN_REFRESH_INTERVAL_MS", "REQUEST_BODY_LIMIT", "DEFAULT_PORT",
              "ACCOUNT_CONFIG_PATH", "DEFAULT_COOLDOWN_MS", "MAX_RETRIES",
              "MAX_ACCOUNTS", "MAX_WAIT_BEFORE_ERROR_MS"}

\* the config object imported from ./config.js: null/undefined, or an object
NoConfig == [isNull |-> TRUE, fields |-> [f \in ConfigFields |-> Undefined]]
Config(fs) == [isNull |-> FALSE, fields |-> fs]

\* config?.field
Opt(c, f) == IF c.isNull THEN Undefined ELSE c.fields[f]

DefaultAccountConfigPath(h) ==
    join(h, <<".config", "antigravity-proxy", "accounts.json">>)

TOKEN_REFRESH_INTERVAL_MS(c) == Or(Opt(c, "tokenCacheTtlMs"), Num(5 * 60 * 1000))
REQUEST_BODY_LIMIT(c)        == Or(Opt(c, "requestBodyLimit"), Text(<<"50mb">>))
DEFAULT_PORT(c)              == Or(Opt(c, "port"), Num(8080))
ACCOUNT_CONFIG_PATH(c, h)    == Or(Opt(c, "accountConfigPath"),
                                   Text(DefaultAccountConfigPath(h)))
DEFAULT_COOLDOWN_MS(c)       == Or(Opt(c, "defaultCooldownMs"), Num(10 * 1000))
MAX_RETRIES(c)               == Or(Opt(c, "maxRetries"), Num(5))
MAX_ACCOUNTS(c)              == Or(Opt(c, "maxAccounts"), Num(10))
MAX_WAIT_BEFORE_ERROR_MS(c)  == Or(Opt(c, "maxWaitBeforeErrorMs"), Num(120000))

\* the values a configuration file may give to a field
SuppliedValues(f) ==
    CASE f = "requestBodyLimit"  -> {Undefined, Text(<<>>), Text(<<"10mb">>)}
      [] f = "accountConfigPath" -> {Undefined, Text(<<>>), Text(<<"etc", "accounts.json">>)}
      [] f = "port"              -> {Undefined, Num(0), Num(3000)}
      [] f = "maxRetries"        -> {Undefined, Num(0), Num(3)}
      [] f = "maxAccounts"       -> {Undefined, Num(0), Num(2)}
      [] OTHER                   -> {Undefined, Num(0), Num(60000)}

Configs ==
    {NoConfig} \cup
    {Config([tokenCacheTtlMs      |-> v1, requestBodyLimit  |-> v2,
             port                 |-> v3, accountConfigPath |-> v4,
             defaultCooldownMs    |-> v5, maxRetries        |-> v6,
             maxAccounts          |-> v7, maxWaitBeforeErrorMs |-> v8]) :
        v1 \in SuppliedValues("tokenCacheTtlMs"),
        v2 \in SuppliedValues("requestBodyLimit"),
        v3 \in SuppliedValues("port"),
        v4 \in SuppliedValues("accountConfigPath"),
        v5 \in SuppliedValues("defaultCooldownMs"),
        v6 \in SuppliedValues("maxRetries"),
        v7 \in SuppliedValues("maxAccounts"),
        v8 \in SuppliedValues("maxWaitBeforeErrorMs")}

----------------------------------------------------------------------------
(* Platform resolver *)

AppDbFile == <<"Antigravity", "User", "globalStorage", "state.vscdb">>

\* mutant: the win32 case is missing, Windows takes the default branch
getAntigravityDbPath_NoWin32(plat, h) ==
    CASE plat = "darwin" -> join(h, <<"Library", "Application Support">> \o AppDbFile)
      [] OTHER           -> join(h, <<".config">> \o AppDbFile)

getAntigravityDbPath(plat, h) ==
    CASE plat = "darwin" -> join(h, <<"Library", "Application Support">> \o AppDbFile)
      [] plat = "win32"  -> join(h, <<"AppData", "Roaming">> \o AppDbFile)
      [] OTHER           -> join(h, <<".config">> \o AppDbFile)

\* `antigravity/1.11.5 ${os}/${architecture}`
getPlatformUserAgent(plat, architecture) ==
    <<"antigravity", "/", "1.11.5", " ", plat, "/", architecture>>

----------------------------------------------------------------------------
(* Policy tables *)

ANTIGRAVITY_ENDPOINT_DAILY == "https://daily-cloudcode-pa.googleapis.com"
ANTIGRAVITY_ENDPOINT_PROD  == "https://cloudcode-pa.googleapis.com"

\* mutant: the production endpoint is listed first
ANTIGRAVITY_ENDPOINT_FALLBACKS_ProdFirst ==
    <<ANTIGRAVITY_ENDPOINT_PROD, ANTIGRAVITY_ENDPOINT_DAILY>>

ANTIGRAVITY_ENDPOINT_FALLBACKS ==
    <<ANTIGRAVITY_ENDPOINT_DAILY, ANTIGRAVITY_ENDPOINT_PROD>>

sDash == <<"-">>
s45   == <<"-","4","-","5">>
s3    == <<"-","3","-">>
nGemini3ProHigh  == sGemini \o s3 \o <<"p","r","o","-","h","i","g","h">>
nGemini3ProLow   == sGemini \o s3 \o <<"p","r","o","-","l","o","w">>
nGemini3Flash    == sGemini \o s3 \o <<"f","l","a","s","h">>
nClaudeOpus45Thinking   == sClaude \o <<"-","o","p","u","s">> \o s45 \o sDash \o sThinking
nClaudeSonnet45Thinking == sClaude \o <<"-","s","o","n","n","e","t">> \o s45 \o sDash \o sThinking
nClaudeSonnet45         == sClaude \o <<"-","s","o","n","n","e","t">> \o s45

\* mutant: claude-sonnet-4-5 falls back to its own thinking variant
MODEL_FALLBACK_MAP_SameFamily ==
    (nGemini3ProHigh :> nClaudeOpus45Thinking) @@
    (nGemini3ProLow :> nClaudeSonnet45) @@
    (nGemini3Flash :> nClaudeSonnet45Thinking) @@
    (nClaudeOpus45Thinking :> nGemini3ProHigh) @@
    (nClaudeSonnet45Thinking :> nGemini3Flash) @@
    (nClaudeSonnet45 :> nClaudeSonnet45Thinking)

\* mutant: claude-opus-4-5-thinking falls back to gemini-3-flash
MODEL_FALLBACK_MAP_OpusToFlash ==
    (nGemini3ProHigh :> nClaudeOpus45Thinking) @@
    (nGemini3ProLow :> nClaudeSonnet45) @@
    (nGemini3Flash :> nClaudeSonnet45Thinking) @@
    (nClaudeOpus45Thinking :> nGemini3Flash) @@
    (nClaudeSonnet45Thinking :> nGemini3Flash) @@
    (nClaudeSonnet45 :> nGemini3Flash)

\* mutant: claude-sonnet-4-5 falls back to a model that has no entry
MODEL_FALLBACK_MAP_DeadEnd ==
    (nGemini3ProHigh :> nClaudeOpus45Thinking) @@
    (nGemini3ProLow :> nClaudeSonnet45) @@
    (nGemini3Flash :> nClaudeSonnet45Thinking) @@
    (nClaudeOpus45Thinking :> nGemini3ProHigh) @@
    (nClaudeSonnet45Thinking :> nGemini3Flash) @@
    (nClaudeSonnet45 :> (sGemini \o <<"-","2","-","f","l","a","s","h">>))

MODEL_FALLBACK_MAP ==
    (nGemini3ProHigh :> nClaudeOpus45Thinking) @@
    (nGemini3ProLow :> nClaudeSonnet45) @@
    (nGemini3Flash :> nClaudeSonnet45Thinking) @@
    (nClaudeOpus45Thinking :> nGemini3ProHigh) @@
    (nClaudeSonnet45Thinking :> nGemini3Flash) @@
    (nClaudeSonnet45 :> nGemini3Flash)

----------------------------------------------------------------------------
(* The classifier called on a request's model name *)

Fragments ==
    { <<"C","l","a","u","d","e">>,
      sGemini,
      <<"G","E","M","I","N","I","-">>,
      sThinking,
      <<"1">>, <<"2">>, <<"3">>, <<".">> }

RECURSIVE Concat(_)
Concat(fs) == IF fs = <<>> THEN <<>> ELSE Head(fs) \o Concat(Tail(fs))

\* the model names of a request: absent, or up to MaxFrags fragments
ModelNames ==
    {Null} \cup
    {Str(Concat(fs)) : fs \in UNION {[1..n -> Fragments] : n \in 0..MaxFrags}}

IdleConfig   == /\ config = NoConfig
                /\ knobs = [k \in KnobNames |-> Undefined]
                /\ loaded = FALSE
IdlePlatform == /\ osPlatform = "linux" /\ osArch = "x64" /\ home = <<"home", "u">>
                /\ dbPath = <<>> /\ userAgent = <<>>
IdleEndpoint == /\ reqNo = 0 /\ epIdx = 0 /\ contacted = <<>>
                /\ phase = "idle" /\ served = <<>>
IdleFallback == /\ primary = Null /\ cur = Null /\ prev = Null
                /\ hops = 0 /\ cap = 0 /\ visited = {} /\ walk = "idle"
IdleClassifier == /\ modelName = Null /\ family = "pending" /\ thinking = FALSE
                  /\ error = "none" /\ calls = {}

InitClassifier ==
    /\ modelName \in ModelNames
    /\ family = "pending" /\ thinking = FALSE /\ error = "none" /\ calls = {}
    /\ IdleConfig /\ IdlePlatform /\ IdleEndpoint /\ IdleFallback

\* family = getModelFamily(modelName)
CallGetModelFamily ==
    /\ "family" \notin calls
    /\ calls' = calls \cup {"family"}
    /\ IF Throws(OrEmpty(modelName))
       THEN error' = "TypeError" /\ UNCHANGED family
       ELSE family' = getModelFamily(modelName) /\ UNCHANGED error
    /\ UNCHANGED <<modelName, thinking>>
    /\ UNCHANGED <<configVars, platformVars, endpointVars, fallbackVars>>

\* thinking = isThinkingModel(modelName)
CallIsThinkingModel ==
    /\ "thinking" \notin calls
    /\ calls' = calls \cup {"thinking"}
    /\ IF Throws(OrEmpty(modelName))
       THEN error' = "TypeError" /\ UNCHANGED thinking
       ELSE thinking' = isThinkingModel(modelName) /\ UNCHANGED error
    /\ UNCHANGED <<modelName, family>>
    /\ UNCHANGED <<configVars, platformVars, endpointVars, fallbackVars>>

NextClassifier == CallGetModelFamily \/ CallIsThinkingModel

SpecClassifier == InitClassifier /\ [][NextClassifier]_vars

----------------------------------------------------------------------------
(* Claims about the classifier *)

\* the lower-cased form of the request's model name ('' for an absent name)
NameLower == IF modelName.isNull THEN <<>> ELSE toLowerCase(modelName.chars)
HasClaude   == includes(NameLower, sClaude)
HasGemini   == includes(NameLower, sGemini)
HasThinking == includes(NameLower, sThinking)

\* C1: getModelFamily is a case-insensitive substring classification: a name
\* with "claude" and no "gemini" is 'claude', a name with "gemini" and no
\* "claude" is 'gemini', a name with both is 'claude' (the claude test comes
\* first), and the result is always one of claude, gemini, unknown.
C1_FamilyClassification ==
    "family" \in calls =>
        /\ family \in {"claude", "gemini", "unknown"}
        /\ (HasClaude /\ ~HasGemini) => family = "claude"
        /\ (HasGemini /\ ~HasClaude) => family = "gemini"
        /\ (HasClaude /\ HasGemini) => family = "claude"

\* a mixed-case name with both substrings has been classified
C1_Witness ==
    /\ "family" \in calls
    /\ HasClaude /\ HasGemini
    /\ ~modelName.isNull /\ modelName.chars # NameLower
    /\ family = "claude"

\* C2: a name with neither "claude" nor "gemini" (the empty string and an
\* absent name included) classifies as 'unknown' and as not thinking, and
\* neither call ends in an error.
C2_NeitherIsUnknown ==
    (~HasClaude /\ ~HasGemini) =>
        /\ error = "none"
        /\ "family" \in calls => family = "unknown"
        /\ "thinking" \in calls => thinking = FALSE

\* both functions have been called on an absent (null) model name
C2_Witness ==
    /\ modelName.isNull
    /\ calls = {"family", "thinking"}
    /\ family = "unknown" /\ thinking = FALSE /\ error = "none"

\* the integer of the "gemini-<integer>" marker that starts at position i
MarkerValue(s, i) == parseInt(DigitRun(s, i + 7))

\* C3: a name containing "gemini" is a thinking model if and only if it
\* contains "thinking" or contains anywhere a marker "gemini-<integer>" with
\* integer >= 3; with several markers, any one of them >= 3 is enough.
C3_AnyMarkerQualifies ==
    ("thinking" \in calls /\ HasGemini) =>
        (thinking <=>
            \/ HasThinking
            \/ \E i \in MatchPositions(NameLower) : MarkerValue(NameLower, i) >= 3)

\* C4: for a name that getModelFamily classifies as 'claude',
\* isThinkingModel is true if and only if the name contains "thinking".
C4_ClaudeThinkingOnlyByName ==
    ("thinking" \in calls /\ getModelFamily(modelName) = "claude") =>
        (thinking <=> HasThinking)

----------------------------------------------------------------------------
(* Module load: the configurable constants are computed from the config *)

InitConfig ==
    /\ config \in Configs
    /\ knobs = [k \in KnobNames |-> Undefined]
    /\ loaded = FALSE
    /\ IdleClassifier /\ IdlePlatform /\ IdleEndpoint /\ IdleFallback

LoadConstants ==
    /\ ~loaded
    /\ loaded' = TRUE
    /\ knobs' = [TOKEN_REFRESH_INTERVAL_MS |-> TOKEN_REFRESH_INTERVAL_MS(config),
                 REQUEST_BODY_LIMIT        |-> REQUEST_BODY_LIMIT(config),
                 DEFAULT_PORT              |-> DEFAULT_PORT(config),
                 ACCOUNT_CONFIG_PATH       |-> ACCOUNT_CONFIG_PATH(config, home),
                 DEFAULT_COOLDOWN_MS       |-> DEFAULT_COOLDOWN_MS(config),
                 MAX_RETRIES               |-> MAX_RETRIES(config),
                 MAX_ACCOUNTS              |-> MAX_ACCOUNTS(config),
                 MAX_WAIT_BEFORE_ERROR_MS  |-> MAX_WAIT_BEFORE_ERROR_MS(config)]
    /\ UNCHANGED config
    /\ UNCHANGED <<classifierVars, platformVars, endpointVars, fallbackVars>>

NextConfig == LoadConstants

SpecConfig == InitConfig /\ [][NextConfig]_vars

\* the configuration field behind each knob, and the documented default
FieldOf(k) ==
    CASE k = "TOKEN_REFRESH_INTERVAL_MS" -> "tokenCacheTtlMs"
      [] k = "REQUEST_BODY_LIMIT"        -> "requestBodyLimit"
      [] k = "DEFAULT_PORT"              -> "port"
      [] k = "ACCOUNT_CONFIG_PATH"       -> "accountConfigPath"
      [] k = "DEFAULT_COOLDOWN_MS"       -> "defaultCooldownMs"
      [] k = "MAX_RETRIES"               -> "maxRetries"
      [] k = "MAX_ACCOUNTS"              -> "maxAccounts"
      [] k = "MAX_WAIT_BEFORE_ERROR_MS"  -> "maxWaitBeforeErrorMs"

DocumentedDefault(k) ==
    CASE k = "TOKEN_REFRESH_INTERVAL_MS" -> Num(300000)
      [] k = "REQUEST_BODY_LIMIT"        -> Text(<<"50mb">>)
      [] k = "DEFAULT_PORT"              -> Num(8080)
      [] k = "ACCOUNT_CONFIG_PATH"       ->
             Text(home \o <<".config", "antigravity-proxy", "accounts.json">>)
      [] k = "DEFAULT_COOLDOWN_MS"       -> Num(10000)
      [] k = "MAX_RETRIES"               -> Num(5)
      [] k = "MAX_ACCOUNTS"              -> Num(10)
      [] k = "MAX_WAIT_BEFORE_ERROR_MS"  -> Num(120000)

Supplied(k) == ~config.isNull /\ config.fields[FieldOf(k)] # Undefined

\* C5: every knob equals the configuration value whenever the configuration
\* supplies one (0 included), and the documented default only when the
\* configuration object or the field is absent; no configuration is an error.
C5_ConfigValueWins ==
    loaded =>
        \A k \in KnobNames :
            knobs[k] = IF Supplied(k) THEN config.fields[FieldOf(k)]
                       ELSE DocumentedDefault(k)

----------------------------------------------------------------------------
(* Module load on a platform: ANTIGRAVITY_DB_PATH and the User-Agent header *)

Platforms == {"darwin", "win32", "linux", "freebsd", "openbsd", "sunos", "aix", "haiku"}
Archs     == {"x64", "arm64", "ia32"}
HomeSegments == {"Users", "home", "u"}
Homes == UNION {[1..n -> HomeSegments] : n \in 1..MaxHomeDepth}

InitPlatform ==
    /\ osPlatform \in Platforms
    /\ osArch \in Archs
    /\ home \in Homes
    /\ dbPath = <<>>
    /\ userAgent = <<>>
    /\ IdleClassifier /\ IdleConfig /\ IdleEndpoint /\ IdleFallback

\* export const ANTIGRAVITY_DB_PATH = getAntigravityDbPath();
ResolveDbPath ==
    /\ dbPath = <<>>
    /\ dbPath' = getAntigravityDbPath(osPlatform, home)
    /\ UNCHANGED <<osPlatform, osArch, home, userAgent>>
    /\ UNCHANGED <<classifierVars, configVars, endpointVars, fallbackVars>>

\* 'User-Agent': getPlatformUserAgent()
ResolveUserAgent ==
    /\ userAgent = <<>>
    /\ userAgent' = getPlatformUserAgent(osPlatform, osArch)
    /\ UNCHANGED <<osPlatform, osArch, home, dbPath>>
    /\ UNCHANGED <<classifierVars, configVars, endpointVars, fallbackVars>>

NextPlatform == ResolveDbPath \/ ResolveUserAgent

SpecPlatform == InitPlatform /\ [][NextPlatform]_vars

\* sub occurs in the sequence s as a run of consecutive elements
Contains(s, sub) == \E i \in 1..(Len(s) + 1) : OccursAt(s, sub, i)

\* the part of the resolved path after the home directory
AfterHome == SubSeq(dbPath, Len(home) + 1, Len(dbPath))
IsUnder(p, h) == Len(p) >= Len(h) /\ SubSeq(p, 1, Len(h)) = h
EndsWith(p, e) == Len(p) >= Len(e) /\ SubSeq(p, Len(p) - Len(e) + 1, Len(p)) = e

BranchMarkers(p) ==
    {m \in {"mac", "windows", "other"} :
        \/ m = "mac" /\ Contains(p, <<"Library", "Application Support">>)
        \/ m = "windows" /\ Contains(p, <<"AppData", "Roaming">>)
        \/ m = "other" /\ Contains(p, <<".config">>)}

ExpectedBranch ==
    IF osPlatform = "darwin" THEN "mac"
    ELSE IF osPlatform = "win32" THEN "windows" ELSE "other"

\* C9 (as stated): for every platform and home the path is
\* <home>/.../User/globalStorage/state.db, with "Library/Application Support"
\* only on darwin, "AppData/Roaming" only on win32, ".config" on every other
\* platform; exactly one branch applies and none fails.
C9_PathEndsInStateDb ==
    dbPath # <<>> =>
        /\ IsUnder(dbPath, home)
        /\ EndsWith(dbPath, <<"User", "globalStorage", "state.db">>)
        /\ BranchMarkers(AfterHome) = {ExpectedBranch}

\* C9 (amended): the same, with the file name the code uses, state.vscdb.
C9_PathEndsInStateVscdb ==
    dbPath # <<>> =>
        /\ IsUnder(dbPath, home)
        /\ EndsWith(dbPath, <<"User", "globalStorage", "state.vscdb">>)
        /\ BranchMarkers(AfterHome) = {ExpectedBranch}

\* the path has been resolved on a platform the code does not name
C9_Witness ==
    /\ osPlatform = "haiku"
    /\ dbPath = home \o <<".config">> \o AppDbFile

----------------------------------------------------------------------------
(* The dispatcher's use of the endpoint list: entries are tried strictly in *)
(* order, the next one only after a retryable failure of the current one    *)

InitEndpoint ==
    /\ reqNo = 0 /\ epIdx = 0 /\ contacted = <<>> /\ phase = "idle" /\ served = <<>>
    /\ IdleClassifier /\ IdleConfig /\ IdlePlatform /\ IdleFallback

StartRequest ==
    /\ phase = "idle"
    /\ reqNo < MaxRequests
    /\ reqNo' = reqNo + 1
    /\ epIdx' = 1
    /\ contacted' = <<>>
    /\ phase' = "ready"
    /\ UNCHANGED served
    /\ UNCHANGED <<classifierVars, configVars, platformVars, fallbackVars>>

Contact ==
    /\ phase = "ready"
    /\ contacted' = Append(contacted, ANTIGRAVITY_ENDPOINT_FALLBACKS[epIdx])
    /\ phase' = "waiting"
    /\ UNCHANGED <<reqNo, epIdx, served>>
    /\ UNCHANGED <<classifierVars, configVars, platformVars, fallbackVars>>

Succeed ==
    /\ phase = "waiting"
    /\ served' = Append(served, [result |-> "ok", tried |-> contacted])
    /\ phase' = "idle"
    /\ UNCHANGED <<reqNo, epIdx, contacted>>
    /\ UNCHANGED <<classifierVars, configVars, platformVars, fallbackVars>>

FailRetryable ==
    /\ phase = "waiting"
    /\ IF epIdx < Len(ANTIGRAVITY_ENDPOINT_FALLBACKS)
       THEN /\ epIdx' = epIdx + 1
            /\ phase' = "ready"
            /\ UNCHANGED served
       ELSE /\ served' = Append(served, [result |-> "exhausted", tried |-> contacted])
            /\ phase' = "idle"
            /\ UNCHANGED epIdx
    /\ UNCHANGED <<reqNo, contacted>>
    /\ UNCHANGED <<classifierVars, configVars, platformVars, fallbackVars>>

FailFatal ==
    /\ phase = "waiting"
    /\ served' = Append(served, [result |-> "failed", tried |-> contacted])
    /\ phase' = "idle"
    /\ UNCHANGED <<reqNo, epIdx, contacted>>
    /\ UNCHANGED <<classifierVars, configVars, platformVars, fallbackVars>>

NextEndpoint == StartRequest \/ Contact \/ Succeed \/ FailRetryable \/ FailFatal

SpecEndpoint == InitEndpoint /\ [][NextEndpoint]_vars

\* in the sequence of contacted endpoints, production never comes before daily
DailyBeforeProd(tried) ==
    \A i \in 1..Len(tried) :
        tried[i] = ANTIGRAVITY_ENDPOINT_PROD =>
            \E j \in 1..(i - 1) : tried[j] = ANTIGRAVITY_ENDPOINT_DAILY

\* C8: the endpoint list has exactly two distinct entries, the daily host
\* first and the production host second, so the in-order dispatcher never
\* contacts production before daily.
C8_DailyBeforeProd ==
    /\ Len(ANTIGRAVITY_ENDPOINT_FALLBACKS) = 2
    /\ ANTIGRAVITY_ENDPOINT_FALLBACKS[1] # ANTIGRAVITY_ENDPOINT_FALLBACKS[2]
    /\ ANTIGRAVITY_ENDPOINT_FALLBACKS[1] = ANTIGRAVITY_ENDPOINT_DAILY
    /\ ANTIGRAVITY_ENDPOINT_FALLBACKS[2] = ANTIGRAVITY_ENDPOINT_PROD
    /\ DailyBeforeProd(contacted)
    /\ \A r \in 1..Len(served) : DailyBeforeProd(served[r].tried)

\* production has been contacted, after a retryable failure of daily
C8_Witness ==
    /\ phase = "waiting"
    /\ contacted = <<ANTIGRAVITY_ENDPOINT_DAILY, ANTIGRAVITY_ENDPOINT_PROD>>

----------------------------------------------------------------------------
(* A walk along the model fallback map, capped at cap hops *)

FallbackKeys == DOMAIN MODEL_FALLBACK_MAP

\* MODEL_FALLBACK_MAP[model]: undefined when the model has no entry
Fallback(m) ==
    IF ~m.isNull /\ m.chars \in FallbackKeys
    THEN Str(MODEL_FALLBACK_MAP[m.chars]) ELSE Null

\* requested models: the keys of the map and a model without an entry
RequestedModels ==
    {Str(k) : k \in {nGemini3ProHigh, nGemini3ProLow, nGemini3Flash,
                      nClaudeOpus45Thinking, nClaudeSonnet45Thinking,
                      nClaudeSonnet45, sGemini \o <<"-","2","-","f","l","a","s","h">>}}

InitFallback ==
    /\ primary \in RequestedModels
    /\ cap \in 0..MaxHops
    /\ cur = primary /\ prev = Null
    /\ hops = 0 /\ visited = {primary} /\ walk = "walking"
    /\ IdleClassifier /\ IdleConfig /\ IdlePlatform /\ IdleEndpoint

\* the quota of cur is exhausted: substitute its fallback
Hop ==
    /\ walk = "walking"
    /\ hops < cap
    /\ ~Fallback(cur).isNull
    /\ prev' = cur
    /\ cur' = Fallback(cur)
    /\ hops' = hops + 1
    /\ visited' = visited \cup {Fallback(cur)}
    /\ UNCHANGED <<primary, cap, walk>>
    /\ UNCHANGED <<classifierVars, configVars, platformVars, endpointVars>>

\* cur has no fallback entry: no substitute is available
NoEntry ==
    /\ walk = "walking"
    /\ hops < cap
    /\ Fallback(cur).isNull
    /\ walk' = "noEntry"
    /\ UNCHANGED <<primary, cur, prev, hops, cap, visited>>
    /\ UNCHANGED <<classifierVars, configVars, platformVars, endpointVars>>

\* the hop cap is reached
CapReached ==
    /\ walk = "walking"
    /\ hops = cap
    /\ walk' = "capped"
    /\ UNCHANGED <<primary, cur, prev, hops, cap, visited>>
    /\ UNCHANGED <<classifierVars, configVars, platformVars, endpointVars>>

NextFallback == Hop \/ NoEntry \/ CapReached

SpecFallback == InitFallback /\ [][NextFallback]_vars

OtherFamily(f) == IF f = "claude" THEN "gemini" ELSE "claude"

\* C6: the map has exactly six entries and alternates families: every key is
\* claude or gemini, and its fallback is of the other family, so every hop of
\* a walk changes the family.
C6_FamiliesAlternate ==
    /\ Cardinality(FallbackKeys) = 6
    /\ \A k \in FallbackKeys :
          /\ getModelFamily(Str(k)) \in {"claude", "gemini"}
          /\ getModelFamily(Fallback(Str(k))) = OtherFamily(getModelFamily(Str(k)))
    /\ hops > 0 =>
          /\ getModelFamily(prev) \in {"claude", "gemini"}
          /\ getModelFamily(cur) = OtherFamily(getModelFamily(prev))
          /\ cur # prev

\* a walk has hopped from a claude model to a gemini model and back
C6_Witness ==
    /\ hops = 2
    /\ getModelFamily(primary) = "claude"
    /\ getModelFamily(prev) = "gemini"
    /\ getModelFamily(cur) = "claude"

IsKey(m) == ~m.isNull /\ m.chars \in FallbackKeys

\* C7 (as stated): for every key k the fallback of the fallback of k is k.
C7_RoundTripEveryKey ==
    (IsKey(primary) /\ hops = 2) => cur = primary

RoundTripKeys == {nGemini3ProHigh, nClaudeOpus45Thinking,
                  nGemini3Flash, nClaudeSonnet45Thinking}

\* C7 (amended): the fallback of the fallback of a key k is a key of k's
\* family; it is k itself for gemini-3-pro-high, claude-opus-4-5-thinking,
\* gemini-3-flash and claude-sonnet-4-5-thinking, while it is gemini-3-flash
\* for gemini-3-pro-low and claude-sonnet-4-5-thinking for claude-sonnet-4-5.
C7_RoundTripPairs ==
    (IsKey(primary) /\ hops = 2) =>
        /\ IsKey(cur)
        /\ getModelFamily(cur) = getModelFamily(primary)
        /\ primary.chars \in RoundTripKeys => cur = primary
        /\ primary.chars = nGemini3ProLow => cur.chars = nGemini3Flash
        /\ primary.chars = nClaudeSonnet45 => cur.chars = nClaudeSonnet45Thinking

\* two hops from claude-opus-4-5-thinking lead back to it
C7_Witness ==
    /\ primary.chars = nClaudeOpus45Thinking
    /\ hops = 2
    /\ prev.chars = nGemini3ProHigh
    /\ cur = primary

\* an already visited model has been reached again
Revisited == Cardinality(visited) < hops + 1

\* C10 (as stated): every value of the map is a key, so a walk from a key
\* never reaches a model without an entry and can always go on; it revisits a
\* model within at most three hops; a walk capped at one hop ends after a
\* single substitution.
C10_RevisitWithinThree ==
    /\ \A k \in FallbackKeys : MODEL_FALLBACK_MAP[k] \in FallbackKeys
    /\ IsKey(primary) =>
          /\ IsKey(cur)
          /\ walk # "noEntry"
          /\ hops >= 3 => Revisited
          /\ (cap = 1 /\ walk = "capped") => (hops = 1 /\ cur = Fallback(primary))

\* C10 (amended): the same with a revisit within at most four hops.
C10_RevisitWithinFour ==
    /\ \A k \in FallbackKeys : MODEL_FALLBACK_MAP[k] \in FallbackKeys
    /\ IsKey(primary) =>
          /\ IsKey(cur)
          /\ walk # "noEntry"
          /\ hops >= 4 => Revisited
          /\ (cap = 1 /\ walk = "capped") => (hops = 1 /\ cur = Fallback(primary))

\* the walk from gemini-3-pro-low revisits gemini-3-flash at its fourth hop
C10_Witness ==
    /\ primary.chars = nGemini3ProLow
    /\ hops = 4
    /\ cur.chars = nGemini3Flash
    /\ Revisited
    /\ Cardinality(visited) = 4

====
